---- MODULE Spec2Model ----
(***************************************************************************)
(* MailCanvas editor: the zustand editor store (useEditorStore) wrapped in *)
(* zundo's temporal middleware, the drag / canvas-resize gestures that     *)
(* drive it, and the MJML export compiler (generateMJML).                  *)
(*                                                                         *)
(* The store is modelled as a record `s` with the fields of EditorState    *)
(* plus the two stacks of the temporal store; every store action is an     *)
(* operator from a store record to the store record after the call, so     *)
(* that calls can be composed in formulas (ungroup after group, undo after *)
(* a mutation).  Coordinates are integers (drag and resize round to whole  *)
(* pixels); height 'auto' is the sentinel Auto; parentId null is NoId.     *)
(***************************************************************************)
EXTENDS Integers, Sequences, FiniteSets, TLC

VARIABLES
    blocks,             \* EditorState.blocks: sequence of block records
    selectedBlockIds,   \* EditorState.selectedBlockIds: sequence of ids
    clipboard,          \* EditorState.clipboard: sequence of block records
    blockCounters,      \* EditorState.blockCounters: type -> counter
    canvasWidth,        \* EditorState.canvasSettings.width
    canvasBackground,   \* EditorState.canvasSettings.backgroundColor
    variables,          \* EditorState.variables: sequence of design tokens
    interactionMode,    \* EditorState.interactionMode
    editingBlockId,     \* EditorState.editingBlockId (null is NoId)
    pastStates,         \* temporal store: snapshots to undo to
    futureStates,       \* temporal store: snapshots to redo to
    nextId,             \* ids handed out so far (generateBlockId is fresh)
    dragging,           \* react-rnd: id of the block being dragged, or NoId
    pointer,            \* react-rnd: the position <<x, y>> last passed to a drag callback
    isResizing,         \* canvas: a canvas-edge resize drag is in progress
    resizing,           \* react-rnd: id of the block being resized, or NoId
    gestureStart,       \* the block collection when the current/last gesture began
    lastOp,             \* the last operation called, with its outcome
    steps,              \* number of operations called so far
    mjml,               \* the last document returned by generateMJML
    snapResult          \* the last result returned by calculateSnapping

vars == <<blocks, selectedBlockIds, clipboard, blockCounters, canvasWidth,
          canvasBackground, variables, interactionMode, editingBlockId, pastStates,
          futureStates, nextId,
          dragging, pointer, isResizing, resizing, gestureStart, lastOp, steps, mjml,
          snapResult>>

-----------------------------------------------------------------------------
(* Bounds of the model *)

MaxSteps == 4
MaxInitBlocks == 2
MaxNudges == 53
MaxExportBlocks == 3
MaxSnapBlocks == 4
MaxNestedSteps == 3

(* Program constants *)

NoId == 0
Auto == 0 - 1
HistoryLimit == 50
InitialCanvasWidth == 600
NudgeAmount == 1

BlockTypes == {"text", "button", "group", "table", "social"}
AddableTypes == {"text", "button"}

DefaultWidth(type) ==
    CASE type = "text" -> 300
      [] type = "button" -> 150
      [] type = "table" -> 300
      [] OTHER -> 200

DefaultHeight(type) ==
    CASE type = "text" -> Auto
      [] type = "button" -> 48
      [] type = "table" -> Auto
      [] type = "social" -> 60
      [] OTHER -> 200

(* A style value is a string: a literal, or "var:" followed by a token id. *)
(* It is modelled by the pair of the sentinel test and the remaining text. *)
Literal(text) == [sentinel |-> FALSE, text |-> text]
VarRef(id) == [sentinel |-> TRUE, text |-> id]

(* DEFAULT_BLOCK_STYLES[type]: the color-bearing keys (the other keys are  *)
(* lengths and fonts)                                                      *)
DefaultBlockStyles(type) ==
    CASE type = "text" -> [color |-> Literal("#1e293b")]
      [] type = "button" -> [backgroundColor |-> Literal("#0d9488"),
                             color |-> Literal("#ffffff")]
      [] type = "table" -> [backgroundColor |-> Literal("#ffffff"),
                            color |-> Literal("#1e293b")]
      [] OTHER -> <<>>

(* DEFAULT_TABLE_DATA (a 2x2 grid with a header row) and                   *)
(* DEFAULT_SOCIAL_DATA (some networks enabled, brand colors)               *)
DefaultTableData == [hasHeader |-> TRUE, borderColor |-> Literal("#e2e8f0")]
DefaultSocialData == [iconColor |-> "brand"]

-----------------------------------------------------------------------------
(* Helpers over sequences *)

Max(a, b) == IF a >= b THEN a ELSE b
Min(a, b) == IF a <= b THEN a ELSE b

Range(seq) == {seq[i] : i \in 1..Len(seq)}

Includes(seq, x) == \E i \in 1..Len(seq) : seq[i] = x

SetMax(S) == CHOOSE m \in S : \A x \in S : x <= m
SetMin(S) == CHOOSE m \in S : \A x \in S : m <= x

BlockIds(bs) == {bs[i].id : i \in 1..Len(bs)}

BlockById(bs, id) == CHOOSE b \in Range(bs) : b.id = id

IsTopLevel(b) == b.parentId = NoId

(* blocks.reduce((max, b) => Math.max(max, b.layout?.zIndex || 0), 0) *)
MaxZIndex(bs) == SetMax({0} \cup {bs[i].zIndex : i \in 1..Len(bs)})

(* height of a block where the code substitutes a number for 'auto' *)
HeightOr(b, dflt) == IF b.height = Auto THEN dflt ELSE b.height

-----------------------------------------------------------------------------
(* zundo temporal middleware, as configured by the store:                  *)
(*   partialize: blocks and blockCounters only;  limit: 50;  no equality   *)
(*   option, so every call of the store's set() saves the state before it. *)

partialize(s) == [blocks |-> s.blocks, blockCounters |-> s.blockCounters]

(* mutant: the limit test is off by one *)
PushLimitedOffByOne(past, snap) ==
    IF Len(past) > HistoryLimit
    THEN Tail(past) \o <<snap>>
    ELSE Append(past, snap)

PushLimited(past, snap) ==
    IF Len(past) >= HistoryLimit
    THEN Tail(past) \o <<snap>>
    ELSE Append(past, snap)

(* mutant: the state after the call is saved instead of the one before *)
setSavingNewState(s, t) ==
    [t EXCEPT !.pastStates = PushLimited(s.pastStates, partialize(t)),
              !.futureStates = <<>>]

(* set(s, t): the store goes from s to t through the wrapped set() *)
set(s, t) ==
    [t EXCEPT !.pastStates = PushLimited(s.pastStates, partialize(s)),
              !.futureStates = <<>>]

undo(s) ==
    IF s.pastStates = <<>> THEN s
    ELSE LET n == Len(s.pastStates)
             snap == s.pastStates[n]
         IN [s EXCEPT !.blocks = snap.blocks,
                      !.blockCounters = snap.blockCounters,
                      !.pastStates = SubSeq(s.pastStates, 1, n - 1),
                      !.futureStates = Append(s.futureStates, partialize(s))]

redo(s) ==
    IF s.futureStates = <<>> THEN s
    ELSE LET n == Len(s.futureStates)
             snap == s.futureStates[n]
         IN [s EXCEPT !.blocks = snap.blocks,
                      !.blockCounters = snap.blockCounters,
                      !.futureStates = SubSeq(s.futureStates, 1, n - 1),
                      !.pastStates = Append(s.pastStates, partialize(s))]

-----------------------------------------------------------------------------
(* Store actions (useEditorStore) *)

NewBlock(s, type, id) ==
    LET offset == (Len(s.blocks) % 10) * 20
        centerX == (s.canvasWidth - DefaultWidth(type)) \div 2 + offset
        centerY == 100 + offset
        data == CASE type = "social" -> [socialData |-> DefaultSocialData]
                  [] type = "table" -> [tableData |-> DefaultTableData]
                  [] OTHER -> <<>>
    IN [id |-> id, type |-> type, name |-> s.blockCounters[type] + 1,
        styles |-> DefaultBlockStyles(type),
        x |-> Max(0, centerX), y |-> Max(0, centerY),
        width |-> DefaultWidth(type), height |-> DefaultHeight(type),
        zIndex |-> MaxZIndex(s.blocks) + 1,
        parentId |-> NoId, isVisible |-> TRUE, horizontal |-> "left"] @@ data

addBlock(s, type) ==
    LET newBlock == NewBlock(s, type, s.nextId + 1)
    IN set(s, [s EXCEPT !.blocks = Append(s.blocks, newBlock),
                        !.selectedBlockIds = <<newBlock.id>>,
                        !.blockCounters[type] = s.blockCounters[type] + 1,
                        !.nextId = s.nextId + 1])

removeBlock(s, id) ==
    set(s, [s EXCEPT !.blocks = SelectSeq(s.blocks, LAMBDA b : b.id # id),
                     !.selectedBlockIds =
                         SelectSeq(s.selectedBlockIds, LAMBDA sid : sid # id)])

selectBlock(s, id, shiftKey) ==
    IF id = NoId THEN set(s, [s EXCEPT !.selectedBlockIds = <<>>])
    ELSE IF shiftKey
         THEN IF Includes(s.selectedBlockIds, id)
              THEN set(s, [s EXCEPT !.selectedBlockIds =
                        SelectSeq(s.selectedBlockIds, LAMBDA sid : sid # id)])
              ELSE set(s, [s EXCEPT !.selectedBlockIds = Append(s.selectedBlockIds, id)])
         ELSE set(s, [s EXCEPT !.selectedBlockIds = <<id>>])

clearBlocks(s) == set(s, [s EXCEPT !.blocks = <<>>, !.selectedBlockIds = <<>>])

deleteSelectedBlocks(s) ==
    IF Len(s.selectedBlockIds) > 0
    THEN set(s, [s EXCEPT
            !.blocks = SelectSeq(s.blocks,
                                 LAMBDA b : ~Includes(s.selectedBlockIds, b.id)),
            !.selectedBlockIds = <<>>])
    ELSE s

toggleBlockVisibility(s, id) ==
    set(s, [s EXCEPT !.blocks =
        [i \in 1..Len(s.blocks) |->
            IF s.blocks[i].id = id
            THEN [s.blocks[i] EXCEPT !.isVisible = ~s.blocks[i].isVisible]
            ELSE s.blocks[i]]])

(* { ...block, ...updates }: the fields of updates replace those of block *)
Merge(block, updates) ==
    [f \in DOMAIN block |->
        IF f \in DOMAIN updates THEN updates[f] ELSE block[f]]

(* updateBlock(id, updates), for updates of the block's own fields (the   *)
(* constraints, the table and social data: PropertyPanel); styles in the   *)
(* updates are merged into the block's styles                              *)
updateBlock(s, id, updates) ==
    set(s, [s EXCEPT !.blocks =
        [i \in 1..Len(s.blocks) |->
            IF s.blocks[i].id = id
            THEN LET merged == Merge(s.blocks[i], updates)
                 IN IF "styles" \in DOMAIN updates
                    THEN [merged EXCEPT !.styles = updates.styles @@ s.blocks[i].styles]
                    ELSE merged
            ELSE s.blocks[i]]])

(* updateBlockStyles(id, styles): { ...block.styles, ...styles } *)
updateBlockStyles(s, id, styles) ==
    set(s, [s EXCEPT !.blocks =
        [i \in 1..Len(s.blocks) |->
            IF s.blocks[i].id = id
            THEN [s.blocks[i] EXCEPT !.styles = styles @@ s.blocks[i].styles]
            ELSE s.blocks[i]]])

(* updateBlockLayout(id, layout), layout a record of some of x, y, width,  *)
(* height, zIndex (desktop mode)                                           *)
updateBlockLayout(s, id, layout) ==
    set(s, [s EXCEPT !.blocks =
        [i \in 1..Len(s.blocks) |->
            IF s.blocks[i].id = id
            THEN Merge(s.blocks[i], layout)
            ELSE s.blocks[i]]])

bringToFront(s, id) ==
    LET targetIds == IF id # NoId THEN <<id>> ELSE s.selectedBlockIds
        maxZIndex == MaxZIndex(s.blocks)
    IN IF Len(targetIds) = 0 THEN s
       ELSE set(s, [s EXCEPT !.blocks =
                [i \in 1..Len(s.blocks) |->
                    IF Includes(targetIds, s.blocks[i].id)
                    THEN [s.blocks[i] EXCEPT !.zIndex = maxZIndex + 1 + (i - 1)]
                    ELSE s.blocks[i]]])

nudgeSelectedBlocks(s, dx, dy) ==
    IF Len(s.selectedBlockIds) = 0 THEN s
    ELSE set(s, [s EXCEPT !.blocks =
            [i \in 1..Len(s.blocks) |->
                IF Includes(s.selectedBlockIds, s.blocks[i].id)
                THEN [s.blocks[i] EXCEPT !.x = Max(0, s.blocks[i].x + dx),
                                         !.y = Max(0, s.blocks[i].y + dy)]
                ELSE s.blocks[i]]])

setInteractionMode(s, mode) == set(s, [s EXCEPT !.interactionMode = mode])

setEditingBlock(s, id) ==
    set(s, [s EXCEPT !.interactionMode = IF id # NoId THEN "editing" ELSE "idle",
                     !.editingBlockId = id])

resetInteraction(s) ==
    set(s, [s EXCEPT !.interactionMode = "idle", !.editingBlockId = NoId])

(* number of blocks of `type` among the first i entries of seq *)
CountType(seq, i, type) == Cardinality({j \in 1..i : seq[j].type = type})

(* the copies made by pasteBlocks / duplicateSelectedBlocks of `src` *)
Copies(s, src) ==
    [i \in 1..Len(src) |->
        [src[i] EXCEPT !.id = s.nextId + i,
                       !.name = s.blockCounters[src[i].type]
                                  + CountType(src, i, src[i].type),
                       !.x = src[i].x + 20,
                       !.y = src[i].y + 20,
                       !.zIndex = MaxZIndex(s.blocks) + i]]

CountersAfterCopies(s, src) ==
    [ty \in BlockTypes |-> s.blockCounters[ty] + CountType(src, Len(src), ty)]

copySelectedBlocks(s) ==
    set(s, [s EXCEPT !.clipboard =
        SelectSeq(s.blocks, LAMBDA b : Includes(s.selectedBlockIds, b.id))])

pasteBlocks(s) ==
    IF Len(s.clipboard) = 0 THEN s
    ELSE LET pastedBlocks == Copies(s, s.clipboard)
         IN set(s, [s EXCEPT
                !.blocks = s.blocks \o pastedBlocks,
                !.selectedBlockIds = [i \in 1..Len(pastedBlocks) |-> pastedBlocks[i].id],
                !.blockCounters = CountersAfterCopies(s, s.clipboard),
                !.nextId = s.nextId + Len(pastedBlocks)])

duplicateSelectedBlocks(s) ==
    IF Len(s.selectedBlockIds) = 0 THEN s
    ELSE LET selectedBlocks ==
                 SelectSeq(s.blocks, LAMBDA b : Includes(s.selectedBlockIds, b.id))
             duplicatedBlocks == Copies(s, selectedBlocks)
         IN set(s, [s EXCEPT
                !.blocks = s.blocks \o duplicatedBlocks,
                !.selectedBlockIds =
                    [i \in 1..Len(duplicatedBlocks) |-> duplicatedBlocks[i].id],
                !.blockCounters = CountersAfterCopies(s, selectedBlocks),
                !.nextId = s.nextId + Len(duplicatedBlocks)])

(* the index of the block with the given id, 0 when there is none *)
IndexOf(bs, id) ==
    IF \E i \in 1..Len(bs) : bs[i].id = id
    THEN SetMin({i \in 1..Len(bs) : bs[i].id = id})
    ELSE 0

duplicateBlock(s, id) ==
    LET blockIndex == IndexOf(s.blocks, id)
    IN IF blockIndex = 0 THEN s
       ELSE LET blockToDuplicate == s.blocks[blockIndex]
                newCounter == s.blockCounters[blockToDuplicate.type] + 1
                duplicatedBlock ==
                    [blockToDuplicate EXCEPT !.id = s.nextId + 1,
                                             !.name = newCounter,
                                             !.x = blockToDuplicate.x + 20,
                                             !.y = blockToDuplicate.y + 20,
                                             !.zIndex = MaxZIndex(s.blocks) + 1]
            IN set(s, [s EXCEPT
                   !.blocks = SubSeq(s.blocks, 1, blockIndex)
                                \o <<duplicatedBlock>>
                                \o SubSeq(s.blocks, blockIndex + 1, Len(s.blocks)),
                   !.selectedBlockIds = <<duplicatedBlock.id>>,
                   !.blockCounters[blockToDuplicate.type] = newCounter,
                   !.nextId = s.nextId + 1])

(* Hierarchy engine *)

(* mutant: the new group is put inside the first block it groups *)
GroupParentFirstSelected(selectedBlocks) == selectedBlocks[1].id

(* the new group is a top-level block (parentId: null) *)
GroupParent(selectedBlocks) == NoId

(* mutant: blocks that are already in a group are candidates too *)
GroupCandidatesAnyLevel(s) ==
    SelectSeq(s.blocks, LAMBDA b : Includes(s.selectedBlockIds, b.id))

GroupCandidates(s) ==
    SelectSeq(s.blocks,
              LAMBDA b : Includes(s.selectedBlockIds, b.id) /\ b.parentId = NoId)

groupSelectedBlocks(s) ==
    IF Len(s.selectedBlockIds) < 2 THEN s
    ELSE LET selectedBlocks == GroupCandidates(s)
         IN IF Len(selectedBlocks) < 2 THEN s
            ELSE
            LET sel == Range(selectedBlocks)
                minX == SetMin({b.x : b \in sel})
                minY == SetMin({b.y : b \in sel})
                maxX == SetMax({b.x + b.width : b \in sel})
                maxY == SetMax({b.y + HeightOr(b, 100) : b \in sel})
                groupId == s.nextId + 1
                newCounter == s.blockCounters["group"] + 1
                groupBlock ==
                    [id |-> groupId, type |-> "group", name |-> newCounter,
                     styles |-> <<>>,
                     x |-> minX, y |-> minY,
                     width |-> maxX - minX, height |-> maxY - minY,
                     zIndex |-> MaxZIndex(s.blocks) + 1,
                     parentId |-> GroupParent(selectedBlocks),
                     isVisible |-> TRUE, horizontal |-> "left"]
                updatedBlocks ==
                    [i \in 1..Len(s.blocks) |->
                        IF Includes(s.selectedBlockIds, s.blocks[i].id)
                           /\ s.blocks[i].parentId = NoId
                        THEN [s.blocks[i] EXCEPT !.parentId = groupId,
                                                 !.x = s.blocks[i].x - minX,
                                                 !.y = s.blocks[i].y - minY]
                        ELSE s.blocks[i]]
            IN set(s, [s EXCEPT !.blocks = Append(updatedBlocks, groupBlock),
                                !.selectedBlockIds = <<groupId>>,
                                !.blockCounters["group"] = newCounter,
                                !.nextId = s.nextId + 1])

(* mutant: only x is converted back *)
ToAbsoluteXOnly(child, groupBlock) ==
    [child EXCEPT !.parentId = NoId, !.x = child.x + groupBlock.x]

(* relative -> absolute coordinates of a former child *)
ToAbsolute(child, groupBlock) ==
    [child EXCEPT !.parentId = NoId,
                  !.x = child.x + groupBlock.x,
                  !.y = child.y + groupBlock.y]

(* mutant: the lookup forgets the type test *)
FindGroupAnyType(bs, groupId) ==
    {b \in Range(bs) : b.id = groupId}

(* blocks.find((b) => b.id === groupId && b.type === 'group') *)
FindGroup(bs, groupId) ==
    {b \in Range(bs) : b.id = groupId /\ b.type = "group"}

ungroupSelectedBlock(s) ==
    IF Len(s.selectedBlockIds) # 1 THEN s
    ELSE LET groupId == s.selectedBlockIds[1]
             found == FindGroup(s.blocks, groupId)
         IN IF found = {} THEN s
            ELSE
            LET groupBlock == CHOOSE b \in found : TRUE
                rest == SelectSeq(s.blocks, LAMBDA b : b.id # groupId)
                updatedBlocks ==
                    [i \in 1..Len(rest) |->
                        IF rest[i].parentId = groupId
                        THEN ToAbsolute(rest[i], groupBlock)
                        ELSE rest[i]]
                children == SelectSeq(rest, LAMBDA b : b.parentId = groupId)
                childIds == [i \in 1..Len(children) |-> children[i].id]
            IN set(s, [s EXCEPT !.blocks = updatedBlocks,
                                !.selectedBlockIds = childIds])

(* Constraint engine *)

(* mutant: Math.floor instead of Math.round *)
RoundDivFloor(num, den) == num \div den

(* Math.round(num / den) for den > 0: rounds half up *)
RoundDiv(num, den) == (2 * num + den) \div (2 * den)

(* mutant: case 'left' falls through into case 'right' *)
ApplyHorizontalFallThrough(b, oldWidth, newWidth) ==
    CASE b.horizontal = "center" ->
            [b EXCEPT !.x = (newWidth * (2 * b.x + b.width) - b.width * oldWidth)
                              \div (2 * oldWidth)]
      [] b.horizontal = "scale" ->
            [b EXCEPT !.width = RoundDiv(newWidth * b.width, oldWidth),
                      !.x = RoundDiv(newWidth * b.x, oldWidth)]
      [] OTHER ->
            [b EXCEPT !.x = newWidth - b.width - (oldWidth - (b.x + b.width))]

(* the layout of one block after the horizontal constraint rule; the      *)
(* center rule is evaluated in whole pixels (floor of the exact quotient)  *)
ApplyHorizontal(b, oldWidth, newWidth) ==
    CASE b.horizontal = "right" ->
            [b EXCEPT !.x = newWidth - b.width - (oldWidth - (b.x + b.width))]
      [] b.horizontal = "center" ->
            [b EXCEPT !.x = (newWidth * (2 * b.x + b.width) - b.width * oldWidth)
                              \div (2 * oldWidth)]
      [] b.horizontal = "scale" ->
            [b EXCEPT !.width = RoundDiv(newWidth * b.width, oldWidth),
                      !.x = RoundDiv(newWidth * b.x, oldWidth)]
      [] OTHER -> b

(* mutant: x is not kept at or above 0 *)
ClampToCanvasNoFloor(b, newWidth) ==
    LET c == [b EXCEPT !.x = Min(b.x, newWidth - b.width)]
    IN IF c.width > newWidth
       THEN [c EXCEPT !.width = newWidth,
                      !.height = IF c.height = Auto THEN Auto
                                 ELSE RoundDiv(c.height * newWidth, c.width),
                      !.x = 0]
       ELSE c

ClampToCanvas(b, newWidth) ==
    LET c == [b EXCEPT !.x = Max(0, Min(b.x, newWidth - b.width))]
    IN IF c.width > newWidth
       THEN [c EXCEPT !.width = newWidth,
                      !.height = IF c.height = Auto THEN Auto
                                 ELSE RoundDiv(c.height * newWidth, c.width),
                      !.x = 0]
       ELSE c

resizeCanvasWithConstraints(s, newWidth) ==
    IF s.canvasWidth = newWidth THEN s
    ELSE set(s, [s EXCEPT
            !.blocks = [i \in 1..Len(s.blocks) |->
                ClampToCanvas(ApplyHorizontal(s.blocks[i], s.canvasWidth, newWidth),
                              newWidth)],
            !.canvasWidth = newWidth])

(* Variable engine (design tokens) *)

DefaultDesignTokens ==
    <<[id |-> "var-primary", value |-> "#0d9488"],
      [id |-> "var-secondary", value |-> "#6366f1"]>>

TokenValues == {"#0d9488", "#ff0000"}

addVariable(s, value) ==
    set(s, [s EXCEPT !.variables = Append(s.variables,
                                          [id |-> ToString(s.nextId + 1),
                                           value |-> value]),
                     !.nextId = s.nextId + 1])

updateVariable(s, id, value) ==
    set(s, [s EXCEPT !.variables =
        [i \in 1..Len(s.variables) |->
            IF s.variables[i].id = id
            THEN [s.variables[i] EXCEPT !.value = value]
            ELSE s.variables[i]]])

deleteVariable(s, id) ==
    set(s, [s EXCEPT !.variables = SelectSeq(s.variables, LAMBDA v : v.id # id)])

updateCanvasSettings(s, backgroundColor) ==
    set(s, [s EXCEPT !.canvasBackground = backgroundColor])

(* variable-resolver: resolveColor(color, variables); a falsy color (the   *)
(* empty string) is returned as it is, and so is a reference whose token   *)
(* is missing or has a falsy value                                         *)
resolveColor(color, vs) ==
    IF color.text = "" /\ ~color.sentinel THEN color
    ELSE IF color.sentinel
         THEN LET found == SelectSeq(vs, LAMBDA v : v.id = color.text)
              IN IF found # <<>> /\ found[1].value # ""
                 THEN Literal(found[1].value)
                 ELSE color
         ELSE color

ColorKeys == {"color", "backgroundColor", "borderColor", "fill", "stroke",
              "gradientStart", "gradientEnd"}

(* variable-resolver: resolveStyles(styles, variables) *)
resolveStyles(styles, vs) ==
    [key \in DOMAIN styles |->
        IF key \in ColorKeys THEN resolveColor(styles[key], vs) ELSE styles[key]]

-----------------------------------------------------------------------------
(* Export compiler (mjml-generator.ts).  A document is the sequence of its *)
(* tags in document order; an element tag carries the id of the block it   *)
(* was generated from (attributes and whitespace are left out).            *)

Tag(name, id) == [tag |-> name, of |-> id]

(* an element with its color attributes *)
Element(name, id, colors) == [tag |-> name, of |-> id, colors |-> colors]

(* styles.key || fallback: a missing or empty value is falsy *)
StyleOr(styles, key, fallback) ==
    IF key \in DOMAIN styles /\ styles[key] # Literal("")
    THEN styles[key]
    ELSE Literal(fallback)

generateTextMJML(block, vs) ==
    LET styles == resolveStyles(block.styles, vs)
    IN <<Element("mj-text", block.id,
                 [color |-> StyleOr(styles, "color", "#1e293b")])>>

generateButtonMJML(block, vs) ==
    LET styles == resolveStyles(block.styles, vs)
    IN <<Element("mj-button", block.id,
                 [backgroundColor |-> StyleOr(styles, "backgroundColor", "#0d9488"),
                  color |-> StyleOr(styles, "color", "#ffffff")])>>

(* the custom color is used as it is stored (the variables are unused);   *)
(* the brand colors and the monochrome colors are literals of the module   *)
generateSocialMJML(block, vs) ==
    LET socialData == block.socialData
        color == CASE socialData.iconColor = "brand" -> Literal("brand")
                   [] socialData.iconColor = "mono-dark" -> Literal("#1F2937")
                   [] socialData.iconColor = "mono-light" -> Literal("#F9FAFB")
                   [] OTHER -> StyleOr(socialData, "customColor", "#6B7280")
    IN <<Element("mj-social", block.id, [backgroundColor |-> color])>>

(* the border color is tableData.borderColor as it is stored; the header   *)
(* cells take it as their background                                       *)
generateTableMJML(block, vs) ==
    LET styles == resolveStyles(block.styles, vs)
        tableData == block.tableData
        borderColor == StyleOr(tableData, "borderColor", "#e2e8f0")
        bgColor == StyleOr(styles, "backgroundColor", "#ffffff")
        textColor == StyleOr(styles, "color", "#1e293b")
    IN <<Element("mj-table", block.id,
                 [color |-> textColor, border |-> borderColor,
                  headerBackground |-> IF tableData.hasHeader
                                       THEN borderColor ELSE bgColor,
                  cellBackground |-> bgColor])>>

(* [...seq].sort((a, b) => a.layout.y - b.layout.y): a stable sort *)
InsertByY(sorted, b) ==
    LET pos == Cardinality({i \in 1..Len(sorted) : sorted[i].y <= b.y})
    IN SubSeq(sorted, 1, pos) \o <<b>> \o SubSeq(sorted, pos + 1, Len(sorted))

RECURSIVE SortByY(_)
SortByY(seq) ==
    IF seq = <<>> THEN <<>>
    ELSE InsertByY(SortByY(SubSeq(seq, 1, Len(seq) - 1)), seq[Len(seq)])

RECURSIVE Concat(_)
Concat(seqs) == IF seqs = <<>> THEN <<>> ELSE Head(seqs) \o Concat(Tail(seqs))

RECURSIVE generateBlockMJML(_, _, _)

(* mutant: the children are emitted in array order *)
generateGroupMJMLUnsorted(block, allBlocks, vs) ==
    LET children == SelectSeq(allBlocks, LAMBDA b : b.parentId = block.id)
    IN Concat([i \in 1..Len(children) |->
                  generateBlockMJML(children[i], allBlocks, vs)])

generateGroupMJML(block, allBlocks, vs) ==
    LET children == SelectSeq(allBlocks, LAMBDA b : b.parentId = block.id)
    IN IF Len(children) = 0 THEN <<>>
       ELSE LET sorted == SortByY(children)
            IN Concat([i \in 1..Len(sorted) |->
                          generateBlockMJML(sorted[i], allBlocks, vs)])

generateBlockMJML(block, allBlocks, vs) ==
    IF ~block.isVisible THEN <<>>
    ELSE CASE block.type = "text" -> generateTextMJML(block, vs)
           [] block.type = "button" -> generateButtonMJML(block, vs)
           [] block.type = "social" -> generateSocialMJML(block, vs)
           [] block.type = "table" -> generateTableMJML(block, vs)
           [] block.type = "group" -> generateGroupMJML(block, allBlocks, vs)
           [] OTHER -> <<Tag("unknown", block.id)>>

(* mutant: empty markup is wrapped too *)
wrapInSectionAlways(blockMJML, block) ==
    IF block.type = "group" THEN blockMJML
    ELSE <<Tag("<mj-section>", NoId), Tag("<mj-column>", NoId)>>
         \o blockMJML
         \o <<Tag("</mj-column>", NoId), Tag("</mj-section>", NoId)>>

wrapInSection(blockMJML, block) ==
    IF blockMJML = <<>> THEN <<>>
    ELSE IF block.type = "group" THEN blockMJML
    ELSE <<Tag("<mj-section>", NoId), Tag("<mj-column>", NoId)>>
         \o blockMJML
         \o <<Tag("</mj-column>", NoId), Tag("</mj-section>", NoId)>>

RootBlocks(bs) == SelectSeq(bs, LAMBDA b : b.parentId = NoId)

(* the frame: <mjml>, and <mj-body> with the canvas width and the         *)
(* resolved canvas background ('#ffffff' when it resolves to nothing)      *)
Frame(settings, vs) ==
    LET resolved == resolveColor(settings.backgroundColor, vs)
        bgColor == IF resolved = Literal("") THEN Literal("#ffffff") ELSE resolved
    IN <<Tag("<mjml>", NoId),
         [tag |-> "<mj-body>", of |-> NoId, width |-> settings.width,
          background |-> bgColor]>>

(* mutant: the root blocks are emitted in array order *)
generateMJMLUnsorted(bs, settings, vs) ==
    LET sorted == RootBlocks(bs)
        sectionsContent ==
            Concat([i \in 1..Len(sorted) |->
                       wrapInSection(generateBlockMJML(sorted[i], bs, vs), sorted[i])])
    IN Frame(settings, vs)
       \o sectionsContent
       \o <<Tag("</mj-body>", NoId), Tag("</mjml>", NoId)>>

generateMJML(bs, settings, vs) ==
    LET sorted == SortByY(RootBlocks(bs))
        sectionsContent ==
            Concat([i \in 1..Len(sorted) |->
                       wrapInSection(generateBlockMJML(sorted[i], bs, vs), sorted[i])])
    IN Frame(settings, vs)
       \o sectionsContent
       \o <<Tag("</mj-body>", NoId), Tag("</mjml>", NoId)>>

-----------------------------------------------------------------------------
(* Smart guides (SmartGuides.tsx).  Edges are whole pixels and centers     *)
(* half pixels: inside calculateSnapping every length is held in half      *)
(* pixels (twice the pixel value), the results included; null is <<>> and  *)
(* a number v is <<v>>.                                                    *)

SnapThreshold == 5

Abs(v) == IF v < 0 THEN 0 - v ELSE v

getBlockBounds(block) ==
    LET h == HeightOr(block, 50)
    IN [id |-> block.id,
        left |-> 2 * block.x, right |-> 2 * (block.x + block.width),
        top |-> 2 * block.y, bottom |-> 2 * (block.y + h),
        centerX |-> 2 * block.x + block.width,
        centerY |-> 2 * block.y + h,
        width |-> 2 * block.width, height |-> 2 * h]

(* the bounds of the dragged block at the position (x, y), given in pixels *)
BoundsAt(bounds, x, y) ==
    [bounds EXCEPT !.left = 2 * x, !.right = 2 * x + bounds.width,
                   !.top = 2 * y, !.bottom = 2 * y + bounds.height,
                   !.centerX = 2 * x + bounds.width \div 2,
                   !.centerY = 2 * y + bounds.height \div 2]

(* same, for a position given in half pixels *)
BoundsAtHalf(bounds, x2, y2) ==
    [bounds EXCEPT !.left = x2, !.right = x2 + bounds.width,
                   !.top = y2, !.bottom = y2 + bounds.height,
                   !.centerX = x2 + bounds.width \div 2,
                   !.centerY = y2 + bounds.height \div 2]

(* the five X-axis tests against one candidate, in the order of the code:  *)
(* the distance, and the left edge the dragged block would snap to         *)
XTests(cur, other) ==
    <<[dist |-> Abs(cur.left - other.left), pos |-> other.left],
      [dist |-> Abs(cur.right - other.right), pos |-> other.right - cur.width],
      [dist |-> Abs(cur.left - other.right), pos |-> other.right],
      [dist |-> Abs(cur.right - other.left), pos |-> other.left - cur.width],
      [dist |-> Abs(cur.centerX - other.centerX),
       pos |-> other.centerX - cur.width \div 2]>>

YTests(cur, other) ==
    <<[dist |-> Abs(cur.top - other.top), pos |-> other.top],
      [dist |-> Abs(cur.bottom - other.bottom), pos |-> other.bottom - cur.height],
      [dist |-> Abs(cur.top - other.bottom), pos |-> other.bottom],
      [dist |-> Abs(cur.bottom - other.top), pos |-> other.top - cur.height],
      [dist |-> Abs(cur.centerY - other.centerY),
       pos |-> other.centerY - cur.height \div 2]>>

(* mutant: a test at exactly the threshold distance snaps too *)
RECURSIVE ClosestSnapInclusive(_, _, _)
ClosestSnapInclusive(tests, closest, snap) ==
    IF tests = <<>> THEN snap
    ELSE LET test == Head(tests)
         IN IF test.dist <= 2 * SnapThreshold
               /\ (closest = <<>> \/ test.dist < closest[1])
            THEN ClosestSnapInclusive(Tail(tests), <<test.dist>>, <<test.pos>>)
            ELSE ClosestSnapInclusive(Tail(tests), closest, snap)

(* the loop over the tests: closest starts at Infinity (<<>>) and snap at  *)
(* null; a test below the threshold and strictly closer replaces both      *)
RECURSIVE ClosestSnap(_, _, _)
ClosestSnap(tests, closest, snap) ==
    IF tests = <<>> THEN snap
    ELSE LET test == Head(tests)
         IN IF test.dist < 2 * SnapThreshold
               /\ (closest = <<>> \/ test.dist < closest[1])
            THEN ClosestSnap(Tail(tests), <<test.dist>>, <<test.pos>>)
            ELSE ClosestSnap(Tail(tests), closest, snap)

Guide(type, position, start, end) ==
    [type |-> type, position |-> position, start |-> start, end |-> end]

(* mutant: the second pass without the left-edge guide *)
VerticalGuidesNoLeft(final, other) ==
    LET start == Min(final.top, other.top)
        end == Max(final.bottom, other.bottom)
    IN (IF Abs(final.right - other.right) < 2
        THEN <<Guide("vertical", other.right, start, end)>> ELSE <<>>)
       \o (IF Abs(final.centerX - other.centerX) < 2
           THEN <<Guide("vertical", other.centerX, start, end)>> ELSE <<>>)

(* second pass, one candidate: the guides pushed for it, in the order of   *)
(* the code; final is the dragged block's bounds at the final position     *)
VerticalGuides(final, other) ==
    LET start == Min(final.top, other.top)
        end == Max(final.bottom, other.bottom)
    IN (IF Abs(final.left - other.left) < 2
        THEN <<Guide("vertical", other.left, start, end)>> ELSE <<>>)
       \o (IF Abs(final.right - other.right) < 2
           THEN <<Guide("vertical", other.right, start, end)>> ELSE <<>>)
       \o (IF Abs(final.centerX - other.centerX) < 2
           THEN <<Guide("vertical", other.centerX, start, end)>> ELSE <<>>)

HorizontalGuides(final, other) ==
    LET start == Min(final.left, other.left)
        end == Max(final.right, other.right)
    IN (IF Abs(final.top - other.top) < 2
        THEN <<Guide("horizontal", other.top, start, end)>> ELSE <<>>)
       \o (IF Abs(final.bottom - other.bottom) < 2
           THEN <<Guide("horizontal", other.bottom, start, end)>> ELSE <<>>)
       \o (IF Abs(final.centerY - other.centerY) < 2
           THEN <<Guide("horizontal", other.centerY, start, end)>> ELSE <<>>)

(* self.findIndex(g => g.type === guide.type &&                            *)
(*                     Math.abs(g.position - guide.position) < 1)          *)
FindIndex(guides, guide) ==
    SetMin({j \in 1..Len(guides) :
               /\ guides[j].type = guide.type
               /\ Abs(guides[j].position - guide.position) < 2})

(* mutant: no deduplication *)
UniqueGuidesAll(guides) == guides

(* guides.filter((guide, index, self) => index === self.findIndex(...)) *)
UniqueGuides(guides) ==
    LET kept == {i \in 1..Len(guides) : FindIndex(guides, guides[i]) = i}
        RECURSIVE Take(_)
        Take(i) == IF i > Len(guides) THEN <<>>
                   ELSE (IF i \in kept THEN <<guides[i]>> ELSE <<>>) \o Take(i + 1)
    IN Take(1)

(* the snapped position of one axis, the guides pushed by the second pass *)
(* and the result, for the dragged block's bounds, the pointer position    *)
(* and the candidates' bounds                                              *)
SnapX(current, otherBounds) ==
    ClosestSnap(Concat([i \in 1..Len(otherBounds) |-> XTests(current, otherBounds[i])]),
                <<>>, <<>>)

SnapY(current, otherBounds) ==
    ClosestSnap(Concat([i \in 1..Len(otherBounds) |-> YTests(current, otherBounds[i])]),
                <<>>, <<>>)

PushedGuides(final, snapX, snapY, otherBounds) ==
    Concat([i \in 1..Len(otherBounds) |->
               (IF snapX # <<>> THEN VerticalGuides(final, otherBounds[i]) ELSE <<>>)
               \o (IF snapY # <<>> THEN HorizontalGuides(final, otherBounds[i])
                   ELSE <<>>)])

OtherBounds(draggingBlock, otherBlocks) ==
    LET candidates == SelectSeq(otherBlocks,
                          LAMBDA b : b.id # draggingBlock.id /\ b.isVisible)
    IN [i \in 1..Len(candidates) |-> getBlockBounds(candidates[i])]

calculateSnapping(draggingBlock, dragX, dragY, otherBlocks) ==
    LET dragBounds == getBlockBounds(draggingBlock)
        current == BoundsAt(dragBounds, dragX, dragY)
        otherBounds == OtherBounds(draggingBlock, otherBlocks)
        snapX == SnapX(current, otherBounds)
        snapY == SnapY(current, otherBounds)
        final == BoundsAtHalf(dragBounds,
                              IF snapX # <<>> THEN snapX[1] ELSE 2 * dragX,
                              IF snapY # <<>> THEN snapY[1] ELSE 2 * dragY)
    IN [snapX |-> snapX, snapY |-> snapY,
        guides |-> UniqueGuides(PushedGuides(final, snapX, snapY, otherBounds))]

-----------------------------------------------------------------------------
(* The state machine *)

Cur ==
    [blocks |-> blocks, selectedBlockIds |-> selectedBlockIds,
     clipboard |-> clipboard, blockCounters |-> blockCounters,
     canvasWidth |-> canvasWidth, canvasBackground |-> canvasBackground,
     variables |-> variables,
     interactionMode |-> interactionMode, editingBlockId |-> editingBlockId,
     pastStates |-> pastStates,
     futureStates |-> futureStates, nextId |-> nextId]

CurNext ==
    [blocks |-> blocks', selectedBlockIds |-> selectedBlockIds',
     clipboard |-> clipboard', blockCounters |-> blockCounters',
     canvasWidth |-> canvasWidth', canvasBackground |-> canvasBackground',
     variables |-> variables',
     interactionMode |-> interactionMode', editingBlockId |-> editingBlockId',
     pastStates |-> pastStates',
     futureStates |-> futureStates', nextId |-> nextId']

Becomes(t) ==
    /\ blocks' = t.blocks
    /\ selectedBlockIds' = t.selectedBlockIds
    /\ clipboard' = t.clipboard
    /\ blockCounters' = t.blockCounters
    /\ canvasWidth' = t.canvasWidth
    /\ canvasBackground' = t.canvasBackground
    /\ variables' = t.variables
    /\ interactionMode' = t.interactionMode
    /\ editingBlockId' = t.editingBlockId
    /\ pastStates' = t.pastStates
    /\ futureStates' = t.futureStates
    /\ nextId' = t.nextId

(* the store as created by create<EditorStore>() *)
InitialStore ==
    [blocks |-> <<>>, selectedBlockIds |-> <<>>, clipboard |-> <<>>,
     blockCounters |-> [ty \in BlockTypes |-> 0],
     canvasWidth |-> InitialCanvasWidth, canvasBackground |-> Literal("#ffffff"),
     variables |-> DefaultDesignTokens,
     interactionMode |-> "idle", editingBlockId |-> NoId,
     pastStates |-> <<>>, futureStates |-> <<>>,
     nextId |-> 0]

(* state of the components outside the store *)
NoGesture == UNCHANGED <<dragging, pointer, isResizing, resizing, gestureStart>>

Call(name, t) ==
    /\ Becomes(t)
    /\ lastOp' = name
    /\ UNCHANGED <<mjml, snapResult>>

Op(name, t) ==
    /\ steps < MaxSteps
    /\ steps' = steps + 1
    /\ Call(name, t)

(* inputs *)
CanvasWidths == {280, 320, 600}
DragPositions == {10, 50}
DragXs == 95..108
DragYs == {76, 300}

NoSnapResult == [snapX |-> <<>>, snapY |-> <<>>, guides |-> <<>>]
ExportYs == {10, 40, 50}

Idle == dragging = NoId /\ ~isResizing /\ resizing = NoId

AddBlock ==
    \E type \in AddableTypes :
        Idle /\ Op("addBlock", addBlock(Cur, type)) /\ NoGesture

RemoveBlock ==
    \E id \in BlockIds(blocks) :
        Idle /\ Op("removeBlock", removeBlock(Cur, id)) /\ NoGesture

SelectBlock ==
    \E id \in BlockIds(blocks) \cup {NoId}, shiftKey \in BOOLEAN :
        Idle /\ Op("selectBlock", selectBlock(Cur, id, shiftKey)) /\ NoGesture

DeleteSelectedBlocks ==
    Idle /\ Op("deleteSelectedBlocks", deleteSelectedBlocks(Cur)) /\ NoGesture

DuplicateBlock ==
    \E id \in BlockIds(blocks) :
        Idle /\ Op("duplicateBlock", duplicateBlock(Cur, id)) /\ NoGesture

DuplicateSelectedBlocks ==
    Idle /\ Op("duplicateSelectedBlocks", duplicateSelectedBlocks(Cur)) /\ NoGesture

ClearBlocks == Idle /\ Op("clearBlocks", clearBlocks(Cur)) /\ NoGesture

CopySelectedBlocks ==
    Idle /\ Op("copySelectedBlocks", copySelectedBlocks(Cur)) /\ NoGesture

PasteBlocks ==
    Idle /\ Op("pasteBlocks", pasteBlocks(Cur)) /\ NoGesture

GroupSelectedBlocks ==
    Idle /\ Op("groupSelectedBlocks", groupSelectedBlocks(Cur)) /\ NoGesture

UngroupSelectedBlock ==
    Idle /\ Op("ungroupSelectedBlock", ungroupSelectedBlock(Cur)) /\ NoGesture

NudgeSelectedBlocks ==
    \E d \in {<<NudgeAmount, 0>>, <<0, NudgeAmount>>} :
        Idle /\ Op("nudgeSelectedBlocks", nudgeSelectedBlocks(Cur, d[1], d[2]))
             /\ NoGesture

ToggleBlockVisibility ==
    \E id \in BlockIds(blocks) :
        Idle /\ Op("toggleBlockVisibility", toggleBlockVisibility(Cur, id)) /\ NoGesture

ResizeCanvasWithConstraints ==
    \E w \in CanvasWidths :
        Idle /\ Op("resizeCanvasWithConstraints", resizeCanvasWithConstraints(Cur, w))
             /\ NoGesture

AddVariable ==
    \E v \in TokenValues :
        Idle /\ Op("addVariable", addVariable(Cur, v)) /\ NoGesture

UpdateVariable ==
    \E i \in 1..Len(variables), v \in TokenValues :
        Idle /\ Op("updateVariable", updateVariable(Cur, variables[i].id, v))
             /\ NoGesture

DeleteVariable ==
    \E i \in 1..Len(variables) :
        Idle /\ Op("deleteVariable", deleteVariable(Cur, variables[i].id))
             /\ NoGesture

Undo == Idle /\ Op("undo", undo(Cur)) /\ NoGesture

Redo == Idle /\ Op("redo", redo(Cur)) /\ NoGesture

(* FreeBlock: one drag of a top-level block (react-rnd callbacks) *)
DragStart ==
    \E id \in BlockIds(blocks) :
        /\ Idle
        /\ BlockById(blocks, id).parentId = NoId
        /\ BlockById(blocks, id).isVisible
        /\ id # editingBlockId
        /\ Op("dragStart", bringToFront(setInteractionMode(Cur, "dragging"), id))
        /\ dragging' = id
        /\ gestureStart' = blocks
        /\ UNCHANGED <<pointer, isResizing, resizing>>

(* FreeBlock: the blocks the dragged block can snap to *)
OtherBlocks(bs, id) ==
    SelectSeq(bs, LAMBDA b : b.id # id /\ b.isVisible /\ b.parentId = NoId)

(* handleDrag: the pointer is at (x, y); the guides go to the canvas *)
DragMove ==
    \E x \in DragXs, y \in DragYs :
        /\ dragging # NoId
        /\ Becomes(Cur)
        /\ lastOp' = "dragMove"
        /\ pointer' = <<x, y>>
        /\ snapResult' = calculateSnapping(BlockById(blocks, dragging), x, y,
                                           OtherBlocks(blocks, dragging))
        /\ UNCHANGED <<steps, mjml, dragging, isResizing, resizing, gestureStart>>

(* handleDragStop: the block is dropped at (x, y), or at the snapped       *)
(* position, rounded to whole pixels                                       *)
DragStop ==
    \E x \in DragPositions, y \in DragPositions :
        /\ dragging # NoId
        /\ steps < MaxSteps
        /\ steps' = steps + 1
        /\ LET idle == setInteractionMode(Cur, "idle")
               result == calculateSnapping(BlockById(idle.blocks, dragging), x, y,
                                           OtherBlocks(blocks, dragging))
               finalX == IF result.snapX # <<>> THEN RoundDiv(result.snapX[1], 2)
                         ELSE x
               finalY == IF result.snapY # <<>> THEN RoundDiv(result.snapY[1], 2)
                         ELSE y
           IN /\ Becomes(updateBlockLayout(idle, dragging,
                                           [x |-> finalX, y |-> finalY]))
              /\ snapResult' = result
        /\ lastOp' = "dragStop"
        /\ pointer' = <<x, y>>
        /\ dragging' = NoId
        /\ UNCHANGED <<mjml, isResizing, resizing, gestureStart>>

(* FreeBlock: one resize of a selected block by its handles *)
ResizedWidths == {120, 300}

BlockResizeStart ==
    \E id \in BlockIds(blocks) :
        /\ Idle
        /\ BlockById(blocks, id).isVisible
        /\ Includes(selectedBlockIds, id)
        /\ id # editingBlockId
        /\ Op("resizeStart", setInteractionMode(Cur, "resizing"))
        /\ resizing' = id
        /\ gestureStart' = blocks
        /\ UNCHANGED <<dragging, pointer, isResizing>>

BlockResizeStop ==
    \E width \in ResizedWidths :
        /\ resizing # NoId
        /\ LET block == BlockById(blocks, resizing)
           IN Op("resizeStop",
                 updateBlockLayout(setInteractionMode(Cur, "idle"), resizing,
                                   [width |-> width, height |-> block.height,
                                    x |-> block.x, y |-> block.y]))
        /\ resizing' = NoId
        /\ UNCHANGED <<dragging, pointer, isResizing, gestureStart>>

(* FreeBlock: handleDoubleClick enters the editing mode of a block with    *)
(* text, and selects the first child of a group                            *)
DoubleClick ==
    \E id \in BlockIds(blocks) :
        LET block == BlockById(blocks, id)
            children == SelectSeq(blocks, LAMBDA b : b.parentId = id)
        IN /\ Idle
           /\ block.isVisible
           /\ \/ /\ block.type \in {"text", "button", "table", "list"}
                 /\ Op("doubleClick", setEditingBlock(Cur, id))
              \/ /\ block.type = "group"
                 /\ Len(children) > 0
                 /\ Op("doubleClick", selectBlock(Cur, children[1].id, FALSE))
           /\ NoGesture

(* FreeBlock: handleBlur of the block being edited, when the focus leaves  *)
(* it                                                                      *)
Blur ==
    /\ editingBlockId \in BlockIds(blocks)
    /\ BlockById(blocks, editingBlockId).isVisible
    /\ Op("blur", resetInteraction(Cur))
    /\ NoGesture

(* Canvas: handleCanvasClick on the background *)
CanvasClick ==
    /\ Idle
    /\ Op("canvasClick", selectBlock(resetInteraction(Cur), NoId, FALSE))
    /\ NoGesture

(* Canvas: one drag of the canvas resize handle *)
CanvasResizeStart ==
    /\ Idle
    /\ Op("canvasResizeStart", Cur)
    /\ isResizing' = TRUE
    /\ gestureStart' = blocks
    /\ UNCHANGED <<dragging, pointer, resizing>>

CanvasResizeMove ==
    \E w \in CanvasWidths :
        /\ isResizing
        /\ Op("canvasResizeMove", resizeCanvasWithConstraints(Cur, w))
        /\ NoGesture

CanvasResizeEnd ==
    /\ isResizing
    /\ Op("canvasResizeEnd", Cur)
    /\ isResizing' = FALSE
    /\ UNCHANGED <<dragging, pointer, resizing, gestureStart>>

(* handleExport: the arguments it passes to generateMJML *)
ExportSettings == [width |-> canvasWidth, backgroundColor |-> canvasBackground]

(* export dialog: compile the current document *)
GenerateMJML ==
    /\ Idle
    /\ mjml' = generateMJML(blocks, ExportSettings, variables)
    /\ lastOp' = "generateMJML"
    /\ UNCHANGED <<steps, blocks, selectedBlockIds, clipboard, blockCounters, canvasWidth,
                   canvasBackground, variables, interactionMode, editingBlockId, pastStates,
          futureStates, nextId,
                   dragging, pointer, isResizing, resizing, gestureStart, snapResult>>

-----------------------------------------------------------------------------
(* Initial states: the store after a short run of calls from InitialStore *)

TypeOfNth(k) == IF k % 2 = 1 THEN "text" ELSE "button"

(* n calls of addBlock *)
RECURSIVE AddN(_, _)
AddN(s, n) ==
    IF n = 0 THEN s ELSE addBlock(AddN(s, n - 1), TypeOfNth(n))

(* shift-clicks on the k blocks created before the last one *)
RECURSIVE ShiftSelectDown(_, _)
ShiftSelectDown(s, k) ==
    IF k = 0 THEN s
    ELSE LET r == ShiftSelectDown(s, k - 1)
         IN selectBlock(r, Len(s.blocks) - k, TRUE)

StartsFrom(t) ==
    /\ blocks = t.blocks
    /\ selectedBlockIds = t.selectedBlockIds
    /\ clipboard = t.clipboard
    /\ blockCounters = t.blockCounters
    /\ canvasWidth = t.canvasWidth
    /\ canvasBackground = t.canvasBackground
    /\ variables = t.variables
    /\ interactionMode = t.interactionMode
    /\ editingBlockId = t.editingBlockId
    /\ pastStates = t.pastStates
    /\ futureStates = t.futureStates
    /\ nextId = t.nextId
    /\ dragging = NoId
    /\ pointer = <<0, 0>>
    /\ isResizing = FALSE
    /\ resizing = NoId
    /\ gestureStart = t.blocks
    /\ lastOp = "init"
    /\ steps = 0
    /\ mjml = <<>>
    /\ snapResult = NoSnapResult

Init ==
    \E n \in 0..MaxInitBlocks, k \in 0..MaxInitBlocks :
        /\ k < Max(n, 1)
        /\ StartsFrom(ShiftSelectDown(AddN(InitialStore, n), k))

Next ==
    \/ AddBlock
    \/ RemoveBlock
    \/ SelectBlock
    \/ DeleteSelectedBlocks
    \/ DuplicateSelectedBlocks
    \/ CopySelectedBlocks
    \/ PasteBlocks
    \/ GroupSelectedBlocks
    \/ UngroupSelectedBlock
    \/ Undo
    \/ Redo

Spec == Init /\ [][Next]_vars

(* History: edits of an existing document, canvas and token changes, undo *)
InitHistory ==
    \E n \in 1..MaxInitBlocks :
        StartsFrom(AddN(InitialStore, n))

NextHistory ==
    \/ NudgeSelectedBlocks
    \/ ToggleBlockVisibility
    \/ ResizeCanvasWithConstraints
    \/ AddVariable
    \/ UpdateVariable
    \/ DeleteVariable
    \/ Undo
    \/ Redo

SpecHistory == InitHistory /\ [][NextHistory]_vars

(* Gestures: block drags and canvas-edge resize drags, undo *)
NextGesture ==
    \/ DragStart
    \/ DragMove
    \/ DragStop
    \/ CanvasResizeStart
    \/ CanvasResizeMove
    \/ CanvasResizeEnd
    \/ Undo
    \/ Redo

SpecGesture == InitHistory /\ [][NextGesture]_vars

(* Long history: one block nudged again and again, undo and redo *)
NudgedSoFar == IF blocks = <<>> THEN 0 ELSE blocks[1].x - NewBlock(InitialStore, "text", 1).x

LongNudge ==
    /\ Idle
    /\ blocks # <<>>
    /\ NudgedSoFar < MaxNudges
    /\ Call("nudgeSelectedBlocks", nudgeSelectedBlocks(Cur, NudgeAmount, 0))
    /\ UNCHANGED steps
    /\ NoGesture

LongUndo == Idle /\ Call("undo", undo(Cur)) /\ UNCHANGED steps /\ NoGesture

LongRedo == Idle /\ Call("redo", redo(Cur)) /\ UNCHANGED steps /\ NoGesture

InitLimit == StartsFrom(AddN(InitialStore, 1))

NextLimit == LongNudge \/ LongUndo \/ LongRedo

SpecLimit == InitLimit /\ [][NextLimit]_vars

(* Export: documents made by adding blocks, grouping, moving, hiding and  *)
(* raising them, and the export of each                                    *)

(* updateBlockLayout(id, {y}) for the first k blocks, ys[i] for block i *)
RECURSIVE MoveAll(_, _, _)
MoveAll(s, ys, k) ==
    IF k = 0 THEN s
    ELSE LET r == MoveAll(s, ys, k - 1)
         IN updateBlockLayout(r, r.blocks[k].id, [y |-> ys[k]])

(* toggleBlockVisibility for the blocks among the first k that are in hidden *)
RECURSIVE HideAll(_, _, _)
HideAll(s, hidden, k) ==
    IF k = 0 THEN s
    ELSE LET r == HideAll(s, hidden, k - 1)
         IN IF k \in hidden THEN toggleBlockVisibility(r, r.blocks[k].id) ELSE r

(* g = 0: no group; 1: the last two blocks grouped; 2: that group grouped  *)
(* again with the first block; 3: the last two blocks grouped and the      *)
(* group then deleted                                                      *)
Grouped(s, g) ==
    IF g = 0 THEN s
    ELSE LET one == groupSelectedBlocks(ShiftSelectDown(s, 1))
         IN CASE g = 1 -> one
              [] g = 2 -> groupSelectedBlocks(selectBlock(one, one.blocks[1].id, TRUE))
              [] OTHER -> deleteSelectedBlocks(one)

ExportBackgrounds == {Literal("#ffffff"), VarRef("var-primary")}

ExportDocument(n, g, ys, hidden, front, bg) ==
    LET grouped == Grouped(AddN(InitialStore, n), g)
        k == Len(grouped.blocks)
        moved == HideAll(MoveAll(grouped, ys, k), hidden, k)
        raised == IF front = NoId THEN moved ELSE bringToFront(moved, front)
    IN IF bg = InitialStore.canvasBackground THEN raised
       ELSE updateCanvasSettings(raised, bg)

InitExport ==
    \E n \in 2..MaxExportBlocks, g \in 0..3 :
        /\ g = 2 => n >= 3
        /\ LET k == Len(Grouped(AddN(InitialStore, n), g).blocks)
           IN \E ys \in [1..k -> ExportYs], hidden \in SUBSET (1..k),
                 front \in {NoId, 1}, bg \in ExportBackgrounds :
                 StartsFrom(ExportDocument(n, g, ys, hidden, front, bg))

NextExport == GenerateMJML

SpecExport == InitExport /\ [][NextExport]_vars

(* Visibility: documents of four blocks with the last two grouped, or that *)
(* group grouped again with the first block; the children of the first     *)
(* group may have been removed; any of the blocks are hidden               *)
HiddenDocument(g, emptied, hidden) ==
    LET grouped == Grouped(AddN(InitialStore, 4), g)
        cleared == IF emptied
                   THEN removeBlock(removeBlock(grouped, grouped.blocks[3].id),
                                    grouped.blocks[4].id)
                   ELSE grouped
    IN HideAll(cleared, hidden, Len(cleared.blocks))

InitHidden ==
    \E g \in 1..2, emptied \in BOOLEAN :
        \E hidden \in SUBSET (1..Len(HiddenDocument(g, emptied, {}).blocks)) :
            StartsFrom(HiddenDocument(g, emptied, hidden))

NextHidden == GenerateMJML

SpecHidden == InitHidden /\ [][NextHidden]_vars

(* Constraints: documents of two blocks at some canvas width, the second  *)
(* block given an anchoring mode, a position and a width, the two grouped  *)
(* or not; then canvas resizes, undo and redo                              *)
ConstraintModes == {"left", "right", "center", "scale"}
ResizeWidths == {280, 400, 600, 1200}
ConstraintXs == {0, 2, 150, 300}
ConstraintBlockWidths == {2, 150, 700}

ConstraintDocument(w1, mode, x, width, g) ==
    LET empty == resizeCanvasWithConstraints(InitialStore, w1)
        two == AddN(empty, 2)
        id == two.blocks[2].id
        anchored == IF mode = "left" THEN two
                    ELSE updateBlock(two, id, [horizontal |-> mode])
        placed == updateBlockLayout(anchored, id, [x |-> x, width |-> width])
    IN Grouped(placed, g)

ResizeCanvas ==
    \E w \in ResizeWidths :
        Idle /\ Op("resizeCanvasWithConstraints", resizeCanvasWithConstraints(Cur, w))
             /\ NoGesture

InitConstraint ==
    \E w1 \in ResizeWidths, mode \in ConstraintModes, x \in ConstraintXs,
       width \in ConstraintBlockWidths, g \in 0..1 :
        StartsFrom(ConstraintDocument(w1, mode, x, width, g))

NextConstraint ==
    \/ ResizeCanvas
    \/ Undo
    \/ Redo

SpecConstraint == InitConstraint /\ [][NextConstraint]_vars

(* Nested groups: documents of three blocks with the first two grouped,    *)
(* and, nested, that group grouped again with the third block; some block  *)
(* is selected, and with a group selected undo may have been called twice  *)
(* (the selection is no part of a snapshot: the first undo restores the    *)
(* same blocks, the second the blocks before the last group or add); then  *)
(* a short run of hierarchy and clipboard calls                            *)
NestedDocument(nested, sel, undone) ==
    LET inner == groupSelectedBlocks(ShiftSelectDown(AddN(InitialStore, 2), 1))
        three == addBlock(inner, TypeOfNth(3))
        outer == IF nested
                 THEN groupSelectedBlocks(selectBlock(three, inner.selectedBlockIds[1],
                                                      TRUE))
                 ELSE three
        selected == selectBlock(outer, sel, FALSE)
    IN IF undone THEN undo(undo(selected)) ELSE selected

InitNested ==
    \E nested \in BOOLEAN, undone \in BOOLEAN :
        LET document == NestedDocument(nested, NoId, FALSE).blocks
        IN \E sel \in BlockIds(document) \cup {NoId} :
              /\ undone => sel # NoId /\ BlockById(document, sel).type = "group"
              /\ StartsFrom(NestedDocument(nested, sel, undone))

NextNested ==
    \/ steps < MaxNestedSteps /\ SelectBlock
    \/ steps < MaxNestedSteps /\ GroupSelectedBlocks
    \/ steps < MaxNestedSteps /\ UngroupSelectedBlock
    \/ steps < MaxNestedSteps /\ RemoveBlock
    \/ steps < MaxNestedSteps /\ DeleteSelectedBlocks
    \/ steps < MaxNestedSteps /\ DuplicateBlock
    \/ steps < MaxNestedSteps /\ DuplicateSelectedBlocks
    \/ steps < MaxNestedSteps /\ CopySelectedBlocks
    \/ steps < MaxNestedSteps /\ PasteBlocks
    \/ steps < MaxNestedSteps /\ Undo
    \/ steps < MaxNestedSteps /\ Redo

SpecNested == InitNested /\ [][NextNested]_vars

(* Interaction: documents of three blocks, the last two grouped or not;    *)
(* the blocks are double-clicked, dragged, resized, blurred, and the       *)
(* document is edited                                                      *)
MaxInteractionSteps == 3

InitInteraction ==
    \E g \in 0..1 : StartsFrom(Grouped(AddN(InitialStore, 3), g))

NextInteraction ==
    \/ steps < MaxInteractionSteps /\ DoubleClick
    \/ steps < MaxInteractionSteps /\ Blur
    \/ steps < MaxInteractionSteps /\ CanvasClick
    \/ steps < MaxInteractionSteps /\ DragStart
    \/ steps < MaxInteractionSteps /\ DragStop
    \/ steps < MaxInteractionSteps /\ BlockResizeStart
    \/ steps < MaxInteractionSteps /\ BlockResizeStop
    \/ steps < MaxInteractionSteps /\ SelectBlock
    \/ steps < MaxInteractionSteps /\ AddBlock
    \/ steps < MaxInteractionSteps /\ RemoveBlock
    \/ steps < MaxInteractionSteps /\ DeleteSelectedBlocks
    \/ steps < MaxInteractionSteps /\ ClearBlocks
    \/ steps < MaxInteractionSteps /\ GroupSelectedBlocks
    \/ steps < MaxInteractionSteps /\ UngroupSelectedBlock
    \/ steps < MaxInteractionSteps /\ CopySelectedBlocks
    \/ steps < MaxInteractionSteps /\ PasteBlocks
    \/ steps < MaxInteractionSteps /\ Undo
    \/ steps < MaxInteractionSteps /\ Redo

SpecInteraction == InitInteraction /\ [][NextInteraction]_vars

(* Design tokens: a text, a table and a social block whose colors were     *)
(* set in the property panel (a literal or a token reference), and the     *)
(* canvas background; the tokens are then edited or deleted and the        *)
(* document is exported                                                    *)
MaxTokenSteps == 3

StyleColors == {Literal("#ff0000"), VarRef("var-primary"), VarRef("var-secondary")}
EditedTokenValues == TokenValues \cup {""}

TokenDocument(textColor, borderColor, customColor, bg) ==
    LET added == addBlock(addBlock(addBlock(InitialStore, "text"), "table"), "social")
        text == added.blocks[1]
        table == added.blocks[2]
        social == added.blocks[3]
        styled == updateBlockStyles(added, text.id, [color |-> textColor])
        bordered == updateBlock(styled, table.id,
                        [tableData |-> [borderColor |-> borderColor] @@ table.tableData])
        colored == IF customColor = Literal("") THEN bordered
                   ELSE updateBlock(bordered, social.id,
                            [socialData |-> [iconColor |-> "custom",
                                             customColor |-> customColor]
                                            @@ social.socialData])
    IN updateCanvasSettings(colored, bg)

InitTokens ==
    \E textColor \in StyleColors, borderColor \in StyleColors,
       customColor \in StyleColors \cup {Literal("")}, bg \in ExportBackgrounds :
        StartsFrom(TokenDocument(textColor, borderColor, customColor, bg))

UpdateVariableValue ==
    \E i \in 1..Len(variables), v \in EditedTokenValues :
        /\ steps < MaxTokenSteps
        /\ steps' = steps + 1
        /\ Call("updateVariable", updateVariable(Cur, variables[i].id, v))
        /\ NoGesture

DeleteVariableValue ==
    \E i \in 1..Len(variables) :
        /\ steps < MaxTokenSteps
        /\ steps' = steps + 1
        /\ Call("deleteVariable", deleteVariable(Cur, variables[i].id))
        /\ NoGesture

NextTokens ==
    \/ UpdateVariableValue
    \/ DeleteVariableValue
    \/ GenerateMJML

SpecTokens == InitTokens /\ [][NextTokens]_vars

(* Snapping: documents whose blocks were each given a different one of a   *)
(* few layouts (property panel); one block is dragged over the others      *)
SnapLayouts ==
    {[x |-> 100, y |-> 75, width |-> 150, height |-> 50],
     [x |-> 103, y |-> 75, width |-> 200, height |-> 51],
     [x |-> 100, y |-> 76, width |-> 150, height |-> 49],
     [x |-> 250, y |-> 76, width |-> 150, height |-> 50],
     [x |-> 100, y |-> 200, width |-> 120, height |-> 50]}

(* updateBlockLayout(id, layouts[i]) for the first k blocks *)
RECURSIVE LayoutAll(_, _, _)
LayoutAll(s, layouts, k) ==
    IF k = 0 THEN s
    ELSE LET r == LayoutAll(s, layouts, k - 1)
         IN updateBlockLayout(r, r.blocks[k].id, layouts[k])

InitSnap ==
    \E n \in 2..MaxSnapBlocks :
        \E layouts \in [1..n -> SnapLayouts] :
            /\ \A i, j \in 1..n : layouts[i] = layouts[j] => i = j
            /\ StartsFrom(LayoutAll(AddN(InitialStore, n), layouts, n))

NextSnap ==
    \/ DragStart
    \/ DragMove

SpecSnap == InitSnap /\ [][NextSnap]_vars

-----------------------------------------------------------------------------
(* Hierarchy engine: properties *)

SelectedTopLevel(bs, sel) ==
    {b \in Range(bs) : IsTopLevel(b) /\ Includes(sel, b.id)}

(* C1: for a selection with at least two top-level blocks,                 *)
(* groupSelectedBlocks creates a group, and ungroupSelectedBlock called    *)
(* right after it gives back every block's x, y, parentId and the rest of  *)
(* its layout, for the grouped blocks and for all others.                  *)
GroupUngroupRoundTrip ==
    [][(lastOp' = "groupSelectedBlocks"
        /\ Cardinality(SelectedTopLevel(blocks, selectedBlockIds)) >= 2)
       => /\ Len(blocks') = Len(blocks) + 1
          /\ ungroupSelectedBlock(CurNext).blocks = blocks]_vars

(* a run in which ungroup has just undone a group of blocks at non-zero    *)
(* relative offsets                                                        *)
GroupUngroupWitness ==
    /\ lastOp = "ungroupSelectedBlock"
    /\ Len(pastStates) >= 2
    /\ LET n == Len(pastStates)
           grouped == pastStates[n].blocks
       IN /\ pastStates[n - 1].blocks = blocks
          /\ \E g \in Range(grouped), c \in Range(grouped) :
                /\ g.type = "group" /\ c.parentId = g.id
                /\ c.x > 0 /\ c.y > 0 /\ g.x > 0
                /\ BlockById(blocks, c.id).x = c.x + g.x

(* C2: every parentId names an existing block of type group *)
ParentIsExistingGroup ==
    \A b \in Range(blocks) :
        b.parentId # NoId =>
            \E g \in Range(blocks) : g.id = b.parentId /\ g.type = "group"

(* C3: a block of type group is never the child of another group *)
GroupsAreTopLevel ==
    \A b \in Range(blocks) : b.type = "group" => b.parentId = NoId

(* C8: group with fewer than two selected top-level blocks, ungroup with a *)
(* selection that is not exactly one group, and undo with an empty past    *)
(* stack change neither the document, the selection nor the history.       *)
UngroupPrecondition(bs, sel) ==
    /\ Len(sel) = 1
    /\ \E b \in Range(bs) : b.id = sel[1] /\ b.type = "group"

PreconditionFailuresAreNoOps ==
    [][(\/ /\ lastOp' = "groupSelectedBlocks"
           /\ Cardinality(SelectedTopLevel(blocks, selectedBlockIds)) < 2
        \/ /\ lastOp' = "ungroupSelectedBlock"
           /\ ~UngroupPrecondition(blocks, selectedBlockIds)
        \/ /\ lastOp' = "undo"
           /\ pastStates = <<>>)
       => UNCHANGED <<blocks, blockCounters, selectedBlockIds,
                      pastStates, futureStates>>]_vars

(* ungroup was called on a single selected block that is no group, in a    *)
(* document in which no group was ever made                                *)
PreconditionFailureWitness ==
    /\ lastOp = "ungroupSelectedBlock"
    /\ Len(selectedBlockIds) = 1
    /\ Len(blocks) = nextId
    /\ \E b \in Range(blocks) : b.id = selectedBlockIds[1] /\ b.type = "text"

-----------------------------------------------------------------------------
(* History manager: properties *)

(* n calls of undo (an undo that changes nothing is a fixed point, and the *)
(* calls after it change nothing either)                                  *)
RECURSIVE UndoN(_, _)
UndoN(s, n) ==
    IF n = 0 THEN s
    ELSE LET t == undo(s)
         IN IF t = s THEN s ELSE UndoN(t, n - 1)

(* C4: after a call that changed blocks or blockCounters, undo gives back  *)
(* the blocks and blockCounters from before the call and puts the state it *)
(* left on the future stack; redo called right after an undo gives back    *)
(* the blocks and blockCounters from before that undo.                     *)
UndoRestoresRedoReturns ==
    [][/\ (/\ lastOp' \notin {"undo", "redo"}
           /\ (blocks' # blocks \/ blockCounters' # blockCounters))
          => LET u == undo(CurNext)
             IN /\ u.blocks = blocks
                /\ u.blockCounters = blockCounters
                /\ u.futureStates = <<partialize(CurNext)>>
                /\ redo(u).blocks = blocks'
                /\ redo(u).blockCounters = blockCounters'
       /\ (lastOp' = "undo" /\ pastStates # <<>>)
          => /\ redo(CurNext).blocks = blocks
             /\ redo(CurNext).blockCounters = blockCounters]_vars

(* a redo has just brought back an edit that an undo had taken away *)
UndoRedoWitness ==
    /\ lastOp = "redo"
    /\ pastStates # <<>>
    /\ pastStates[Len(pastStates)].blocks # blocks
    /\ undo(Cur).blocks = pastStates[Len(pastStates)].blocks

(* C6: an undo called right after a mutation restores everything the      *)
(* mutation changed: blocks, blockCounters, the canvas width and the token *)
(* table.                                                                  *)
EveryMutationIsUndone ==
    [][(lastOp' \in {"nudgeSelectedBlocks", "toggleBlockVisibility",
                     "resizeCanvasWithConstraints",
                     "addVariable", "updateVariable", "deleteVariable"})
       => LET u == undo(CurNext)
          IN /\ u.blocks = blocks
             /\ u.blockCounters = blockCounters
             /\ u.canvasWidth = canvasWidth
             /\ u.variables = variables]_vars

(* C7: after a whole gesture that changed the document, one undo gives     *)
(* back the block collection the gesture started from.                     *)
GestureIsOneUndoStep ==
    (lastOp \in {"dragStop", "canvasResizeEnd"} /\ blocks # gestureStart)
        => undo(Cur).blocks = gestureStart

(* C5: the past stack holds at most HistoryLimit snapshots, so that        *)
(* HistoryLimit undos empty it and one more changes nothing; a commit on a *)
(* full stack drops the oldest snapshot, and once HistoryLimit + 1 commits *)
(* were made in a row the document before the first of them (the empty     *)
(* document) is in no snapshot any more.                                   *)
HistoryIsBounded ==
    /\ Len(pastStates) <= HistoryLimit
    /\ LET u == UndoN(Cur, HistoryLimit)
       IN /\ u.pastStates = <<>>
          /\ undo(u) = u
          /\ NudgedSoFar >= HistoryLimit => u.blocks # <<>>
    /\ NudgedSoFar >= HistoryLimit =>
          \A i \in 1..Len(pastStates) : pastStates[i].blocks # <<>>

(* every undo was taken after more than HistoryLimit commits in a row, and *)
(* the document is still not the one the run began with                    *)
HistoryLimitWitness ==
    /\ lastOp = "undo"
    /\ pastStates = <<>>
    /\ Len(futureStates) = HistoryLimit
    /\ blocks # <<>>
    /\ NudgedSoFar > 0

-----------------------------------------------------------------------------
(* Export compiler: properties *)

ElementPositions == {i \in 1..Len(mjml) : mjml[i].of # NoId}

(* the top-level block a block belongs to *)
RECURSIVE RootOf(_, _)
RootOf(bs, b) ==
    IF b.parentId = NoId THEN b ELSE RootOf(bs, BlockById(bs, b.parentId))

(* the child of group g that b is or lies in *)
RECURSIVE ChildToward(_, _, _)
ChildToward(bs, g, b) ==
    IF b.parentId = g.id THEN b ELSE ChildToward(bs, g, BlockById(bs, b.parentId))

(* C9: in the exported document the elements of the visible top-level      *)
(* blocks come in ascending order of the blocks' y, each once.             *)
TopLevelInYOrder ==
    lastOp = "generateMJML" =>
        /\ \A i \in ElementPositions, j \in ElementPositions :
              i < j => RootOf(blocks, BlockById(blocks, mjml[i].of)).y
                         <= RootOf(blocks, BlockById(blocks, mjml[j].of)).y
        /\ \A b \in Range(blocks) :
              (b.parentId = NoId /\ b.isVisible /\ b.type # "group")
                  => Cardinality({i \in ElementPositions : mjml[i].of = b.id}) = 1

(* an export in which a block created first and lying in front comes after *)
(* a block created later, because it is lower on the canvas                *)
TopLevelOrderWitness ==
    /\ lastOp = "generateMJML"
    /\ \E i \in ElementPositions, j \in ElementPositions :
          LET a == BlockById(blocks, mjml[i].of)
              b == BlockById(blocks, mjml[j].of)
          IN /\ i < j
             /\ a.parentId = NoId /\ b.parentId = NoId
             /\ a.y < b.y
             /\ a.id > b.id
             /\ a.zIndex > b.zIndex

(* C10: a visible top-level group appears in the export as the elements   *)
(* of its visible children, in ascending order of the children's y, next   *)
(* to each other, and with no element of its own.                          *)
GroupIsFlattened ==
    lastOp = "generateMJML" =>
        \A g \in Range(blocks) :
            (g.type = "group" /\ g.parentId = NoId /\ g.isVisible) =>
                LET inside == {i \in ElementPositions :
                                  RootOf(blocks, BlockById(blocks, mjml[i].of)).id = g.id}
                IN /\ \A i \in ElementPositions : mjml[i].of # g.id
                   /\ \A i \in inside, j \in inside :
                         \A m \in i..j : m \in inside
                   /\ \A i \in inside, j \in inside :
                         i < j =>
                            ChildToward(blocks, g, BlockById(blocks, mjml[i].of)).y
                              <= ChildToward(blocks, g, BlockById(blocks, mjml[j].of)).y
                   /\ \A c \in Range(blocks) :
                         (c.parentId = g.id /\ c.isVisible /\ c.type # "group")
                            => Cardinality({i \in inside : mjml[i].of = c.id}) = 1

(* an export of a group whose two visible children come out in the order   *)
(* of their y, against their order in the block array, between the         *)
(* elements of two other top-level blocks                                  *)
GroupFlattenedWitness ==
    /\ lastOp = "generateMJML"
    /\ \E i \in ElementPositions, j \in ElementPositions :
          LET a == BlockById(blocks, mjml[i].of)
              b == BlockById(blocks, mjml[j].of)
          IN /\ j = i + 1
             /\ a.parentId # NoId /\ a.parentId = b.parentId
             /\ BlockById(blocks, a.parentId).parentId = NoId
             /\ a.y = 10 /\ b.y = 40
             /\ a.id > b.id

(* a block whose parentId names no block of the collection *)
IsOrphan(bs, b) == b.parentId # NoId /\ b.parentId \notin BlockIds(bs)

(* C12: a visible block whose parentId names no existing block is treated  *)
(* as top-level by generateMJML: its markup is in the exported document.   *)
OrphanIsExported ==
    lastOp = "generateMJML" =>
        \A b \in Range(blocks) :
            (b.isVisible /\ IsOrphan(blocks, b))
                => \E i \in ElementPositions : mjml[i].of = b.id

(* number of tags named name among the first n tags of a document *)
CountTags(doc, name, n) == Cardinality({i \in 1..n : doc[i].tag = name})

(* C20: every element of an exported document sits inside one section and *)
(* one column of the frame, the elements of a group's children included.   *)
ElementsAreInSections ==
    lastOp = "generateMJML" =>
        \A i \in ElementPositions :
            /\ CountTags(mjml, "<mj-section>", i)
                  - CountTags(mjml, "</mj-section>", i) = 1
            /\ CountTags(mjml, "<mj-column>", i)
                  - CountTags(mjml, "</mj-column>", i) = 1
            /\ CountTags(mjml, "<mj-body>", i)
                  - CountTags(mjml, "</mj-body>", i) = 1

-----------------------------------------------------------------------------
(* Constraint engine: properties *)

(* a step in which resizeCanvasWithConstraints changed the canvas width *)
CanvasResized ==
    /\ lastOp' = "resizeCanvasWithConstraints"
    /\ canvasWidth' # canvasWidth

ResizeLeavesChildrenAlone ==
    [][CanvasResized
       => \A i \in 1..Len(blocks) :
            blocks[i].parentId # NoId => blocks'[i] = blocks[i]]_vars

(* the block at index i is top-level, anchored scale and fits in the      *)
(* canvas before the step, and is still there after it                     *)
ScaleBlockThatFits(i) ==
    /\ i \in 1..Len(blocks')
    /\ IsTopLevel(blocks[i])
    /\ blocks[i].horizontal = "scale"
    /\ blocks[i].x >= 0
    /\ blocks[i].x + blocks[i].width <= canvasWidth

(* the block at index i after the step and a resize back to the width      *)
(* before the step is within 1 px of where it was, in x and in width       *)
BackWithin1Px(i) ==
    LET back == resizeCanvasWithConstraints(CurNext, canvasWidth).blocks[i]
    IN /\ Abs(back.x - blocks[i].x) <= 1
       /\ Abs(back.width - blocks[i].width) <= 1

(* C15 as stated: after resizeCanvasWithConstraints(w2) then               *)
(* resizeCanvasWithConstraints(w1) from canvas width w1, a top-level block *)
(* anchored scale that fitted in the canvas is back at its x and width     *)
(* within 1 px, for all w1, w2 in 280..1200.                               *)
ScaleRoundTripWithin1Px ==
    [][CanvasResized
       => \A i \in 1..Len(blocks) :
            ScaleBlockThatFits(i) => BackWithin1Px(i)]_vars

(* C15, amended: the same for a block with whole-pixel x and width and     *)
(* w1 <= 3 * w2; when w2 >= w1 the block is back exactly.                  *)
ScaleRoundTripWithin1PxUpToThird ==
    [][(CanvasResized /\ canvasWidth <= 3 * canvasWidth')
       => \A i \in 1..Len(blocks) :
            ScaleBlockThatFits(i) =>
                /\ BackWithin1Px(i)
                /\ canvasWidth' >= canvasWidth =>
                      LET back == resizeCanvasWithConstraints(CurNext, canvasWidth)
                                      .blocks[i]
                      IN back.x = blocks[i].x /\ back.width = blocks[i].width]_vars

(* the canvas was resized and resized back, and a top-level scale block    *)
(* that was moved by the first resize is back 1 px from where it was       *)
ScaleRoundTripWitness ==
    /\ lastOp = "resizeCanvasWithConstraints"
    /\ Len(pastStates) >= 2
    /\ LET original == pastStates[Len(pastStates) - 1].blocks
           between == pastStates[Len(pastStates)].blocks
       IN /\ Len(original) = Len(blocks)
          /\ Len(between) = Len(blocks)
          /\ \E i \in 1..Len(blocks) :
                /\ IsTopLevel(blocks[i])
                /\ blocks[i].horizontal = "scale"
                /\ original[i].x + original[i].width <= canvasWidth
                /\ between[i].x # original[i].x
                /\ Abs(blocks[i].x - original[i].x) = 1
                /\ Abs(blocks[i].width - original[i].width) <= 1

-----------------------------------------------------------------------------
(* Smart guides: properties *)

(* the arguments of the last calculateSnapping call of a drag *)
Dragged == BlockById(blocks, dragging)

DraggedAt == BoundsAt(getBlockBounds(Dragged), pointer[1], pointer[2])

Candidates == OtherBounds(Dragged, OtherBlocks(blocks, dragging))

AllXTests == UNION {Range(XTests(DraggedAt, Candidates[i])) : i \in 1..Len(Candidates)}

AllYTests == UNION {Range(YTests(DraggedAt, Candidates[i])) : i \in 1..Len(Candidates)}

(* the snapped position is null when no test is below the threshold, and   *)
(* otherwise the position of a test of minimum distance                    *)
ClosestWins(snap, tests, drag) ==
    /\ snap = <<>> <=> \A test \in tests : test.dist >= 2 * SnapThreshold
    /\ snap # <<>> =>
           /\ \E test \in tests :
                  /\ test.pos = snap[1]
                  /\ \A u \in tests : test.dist <= u.dist
           /\ Abs(snap[1] - 2 * drag) < 2 * SnapThreshold

(* C17: calculateSnapping returns snapX = null exactly when no X-axis test *)
(* against any candidate has a distance below 5 px, and otherwise the      *)
(* position of a test of minimum distance, less than 5 px from dragX;      *)
(* snapY likewise from the Y-axis tests; snapX is the same for every       *)
(* dragY, and snapY for every dragX.                                       *)
ClosestTestWinsPerAxis ==
    lastOp = "dragMove" =>
        /\ ClosestWins(snapResult.snapX, AllXTests, pointer[1])
        /\ ClosestWins(snapResult.snapY, AllYTests, pointer[2])
        /\ \A y \in DragYs :
               calculateSnapping(Dragged, pointer[1], y,
                                 OtherBlocks(blocks, dragging)).snapX
                   = snapResult.snapX
        /\ \A x \in DragXs :
               calculateSnapping(Dragged, x, pointer[2],
                                 OtherBlocks(blocks, dragging)).snapY
                   = snapResult.snapY

(* a drag that snaps on X only, while a test sits exactly at the threshold *)
SnapOnXOnlyWitness ==
    /\ lastOp = "dragMove"
    /\ snapResult.snapX # <<>>
    /\ snapResult.snapY = <<>>
    /\ \E test \in AllXTests : test.dist = 2 * SnapThreshold

(* one candidate, its left edge at x = 100 *)
OneCandidateLeftAt100 ==
    /\ lastOp = "dragMove"
    /\ Len(Candidates) = 1
    /\ Candidates[1].left = 2 * 100

VerticalGuidesOf(result) ==
    SelectSeq(result.guides, LAMBDA g : g.type = "vertical")

SnapsToLeftEdge100 ==
    /\ snapResult.snapX = <<2 * 100>>
    /\ Len(VerticalGuidesOf(snapResult)) = 1
    /\ VerticalGuidesOf(snapResult)[1].position = 2 * 100

(* C18 as stated: with one candidate whose left edge is at x = 100, any    *)
(* proposed x in 99..107 yields snapX = 100 and exactly one vertical       *)
(* guide, at position 100.                                                 *)
SnapsWithin4Of103 ==
    (OneCandidateLeftAt100 /\ pointer[1] \in 99..107) => SnapsToLeftEdge100

(* C18, amended: with one candidate whose left edge is at x = 100, any     *)
(* proposed x less than 5 px from 100 (96..104), where no other X-axis     *)
(* test is closer than left-to-left, yields snapX = 100; the result then   *)
(* has exactly one vertical guide, at position 100, when the two widths    *)
(* differ by at least 2 px.                                                *)
SnapsWithinThresholdOf100 ==
    (/\ OneCandidateLeftAt100
     /\ Abs(pointer[1] - 100) < SnapThreshold
     /\ \A test \in AllXTests : Abs(2 * pointer[1] - 2 * 100) <= test.dist)
    => /\ snapResult.snapX = <<2 * 100>>
       /\ Abs(DraggedAt.width - Candidates[1].width) >= 2 * 2
              => SnapsToLeftEdge100

(* the spec's example: the block whose left edge was at 103 is dragged to  *)
(* x = 104 over the block at 100, and snaps to 100 with one guide          *)
SnapTo100Witness ==
    /\ OneCandidateLeftAt100
    /\ Dragged.x = 103
    /\ pointer[1] = 104
    /\ SnapsToLeftEdge100

(* the guides the second pass of the last call pushed, one per aligned     *)
(* line of a candidate, before deduplication                               *)
Pushed ==
    LET final == BoundsAtHalf(getBlockBounds(Dragged),
                     IF snapResult.snapX # <<>> THEN snapResult.snapX[1]
                     ELSE 2 * pointer[1],
                     IF snapResult.snapY # <<>> THEN snapResult.snapY[1]
                     ELSE 2 * pointer[2])
    IN PushedGuides(final, snapResult.snapX, snapResult.snapY, Candidates)

NoTwoGuidesOnOneLine ==
    \A i, j \in 1..Len(snapResult.guides) :
        (/\ snapResult.guides[i].type = snapResult.guides[j].type
         /\ snapResult.guides[i].position = snapResult.guides[j].position)
        => i = j

(* the returned guides of the line's axis less than d half pixels from it *)
GuidesNear(line, d) ==
    {k \in 1..Len(snapResult.guides) :
        /\ snapResult.guides[k].type = line.type
        /\ Abs(snapResult.guides[k].position - line.position) < d}

-----------------------------------------------------------------------------
(* Hierarchy engine: nested groups, duplicates and the selection *)

GroupIds(bs) == {b.id : b \in {c \in Range(bs) : c.type = "group"}}

(* C21: a block of type group enters the block collection only through     *)
(* groupSelectedBlocks (or undo / redo), never through duplicateBlock,     *)
(* duplicateSelectedBlocks or pasteBlocks, and leaves it only through      *)
(* ungroupSelectedBlock, removeBlock or deleteSelectedBlocks (or undo /    *)
(* redo).                                                                  *)
GroupsComeFromGroupOnly ==
    [][/\ GroupIds(blocks') \ GroupIds(blocks) # {}
            => lastOp' \in {"groupSelectedBlocks", "undo", "redo"}
       /\ GroupIds(blocks) \ GroupIds(blocks') # {}
            => lastOp' \in {"ungroupSelectedBlock", "removeBlock",
                            "deleteSelectedBlocks", "undo", "redo"}]_vars

(* the bounding box of a set of blocks; a height 'auto' counts as 100 *)
BoxOf(sel) ==
    LET minX == SetMin({b.x : b \in sel})
        minY == SetMin({b.y : b \in sel})
    IN [x |-> minX, y |-> minY,
        width |-> SetMax({b.x + b.width : b \in sel}) - minX,
        height |-> SetMax({b.y + HeightOr(b, 100) : b \in sel}) - minY]

(* C22: groupSelectedBlocks with at least two selected top-level blocks    *)
(* adds exactly one group block, whose x, y, width, height are the union   *)
(* bounding box of those blocks and whose zIndex is the previous maximum   *)
(* plus one; each of those blocks gets the group as parentId and           *)
(* (x - boxMinX, y - boxMinY) as position; the group is the sole           *)
(* selection; every other block, selected or not, is unchanged.            *)
GroupBoxesTopLevelSelection ==
    [][(lastOp' = "groupSelectedBlocks"
        /\ Cardinality(SelectedTopLevel(blocks, selectedBlockIds)) >= 2)
       => LET sel == SelectedTopLevel(blocks, selectedBlockIds)
              box == BoxOf(sel)
              g == blocks'[Len(blocks')]
          IN /\ Len(blocks') = Len(blocks) + 1
             /\ g.type = "group"
             /\ g.id \notin BlockIds(blocks)
             /\ g.parentId = NoId
             /\ <<g.x, g.y, g.width, g.height>>
                    = <<box.x, box.y, box.width, box.height>>
             /\ g.zIndex = MaxZIndex(blocks) + 1
             /\ selectedBlockIds' = <<g.id>>
             /\ \A i \in 1..Len(blocks) :
                   blocks'[i] = IF blocks[i] \in sel
                                THEN [blocks[i] EXCEPT !.parentId = g.id,
                                                       !.x = blocks[i].x - box.x,
                                                       !.y = blocks[i].y - box.y]
                                ELSE blocks[i]]_vars

(* a group was made of a group and a block while a grouped block and a     *)
(* block that no longer exists were selected too: the new group holds a    *)
(* group with children of its own, away from the new group's origin        *)
GroupOfGroupWitness ==
    /\ lastOp = "groupSelectedBlocks"
    /\ LET g == blocks[Len(blocks)]
       IN /\ g.type = "group"
          /\ \E c \in Range(blocks), d \in Range(blocks) :
                /\ c.parentId = g.id /\ c.type = "group" /\ c.y > 0
                /\ d.parentId = c.id

-----------------------------------------------------------------------------
(* Smart guides: guides of the second pass *)

(* the dragged block's bounds at the position the last call settled on *)
Final ==
    BoundsAtHalf(getBlockBounds(Dragged),
                 IF snapResult.snapX # <<>> THEN snapResult.snapX[1]
                 ELSE 2 * pointer[1],
                 IF snapResult.snapY # <<>> THEN snapResult.snapY[1]
                 ELSE 2 * pointer[2])

(* the coordinates of the candidate's edges and center that one of the     *)
(* five tests of the first pass finds less than 1 px from the dragged      *)
(* block's at its final position                                           *)
AlignedXs(final, other) ==
    {p \in {other.left, other.right, other.centerX} :
        \/ p = other.left /\ (Abs(final.left - p) < 2 \/ Abs(final.right - p) < 2)
        \/ p = other.right /\ (Abs(final.right - p) < 2 \/ Abs(final.left - p) < 2)
        \/ p = other.centerX /\ Abs(final.centerX - p) < 2}

AlignedYs(final, other) ==
    {p \in {other.top, other.bottom, other.centerY} :
        \/ p = other.top /\ (Abs(final.top - p) < 2 \/ Abs(final.bottom - p) < 2)
        \/ p = other.bottom /\ (Abs(final.bottom - p) < 2 \/ Abs(final.top - p) < 2)
        \/ p = other.centerY /\ Abs(final.centerY - p) < 2}

HasGuide(type, p) ==
    \E k \in 1..Len(snapResult.guides) :
        /\ snapResult.guides[k].type = type
        /\ Abs(snapResult.guides[k].position - p) < 2

(* C23: after a snap on an axis, every pair of edges or centers tested by  *)
(* the first pass (left-to-right, right-to-left, top-to-bottom and         *)
(* bottom-to-top included) that is within 1 px at the snapped position has *)
(* a guide at that coordinate; so a non-null snapX comes with a vertical   *)
(* guide and a non-null snapY with a horizontal one.                       *)
EveryAlignedPairHasGuide ==
    lastOp = "dragMove" =>
        /\ snapResult.snapX # <<>> =>
              /\ \A i \in 1..Len(Candidates) :
                    \A p \in AlignedXs(Final, Candidates[i]) : HasGuide("vertical", p)
              /\ \E k \in 1..Len(snapResult.guides) :
                    snapResult.guides[k].type = "vertical"
        /\ snapResult.snapY # <<>> =>
              /\ \A i \in 1..Len(Candidates) :
                    \A p \in AlignedYs(Final, Candidates[i]) : HasGuide("horizontal", p)
              /\ \E k \in 1..Len(snapResult.guides) :
                    snapResult.guides[k].type = "horizontal"

-----------------------------------------------------------------------------
(* Export compiler: invisible blocks and empty output *)

(* the block or one of the groups it lies in is invisible *)
RECURSIVE HiddenInTree(_, _)
HiddenInTree(bs, b) ==
    \/ ~b.isVisible
    \/ /\ b.parentId \in BlockIds(bs)
       /\ HiddenInTree(bs, BlockById(bs, b.parentId))

(* C24: the exported document has no element of an invisible block nor of  *)
(* a block inside an invisible group, and no empty container: every        *)
(* section opens a column and every column holds an element, so a          *)
(* top-level block or group that renders to nothing leaves no section.     *)
InvisibleBlocksLeaveNoTrace ==
    lastOp = "generateMJML" =>
        /\ \A b \in Range(blocks) :
              HiddenInTree(blocks, b) => \A i \in ElementPositions : mjml[i].of # b.id
        /\ \A i \in 1..Len(mjml) :
              /\ mjml[i].tag = "<mj-section>" => mjml[i + 1].tag = "<mj-column>"
              /\ mjml[i].tag = "<mj-column>" => mjml[i + 1].of # NoId
        /\ CountTags(mjml, "<mj-section>", Len(mjml))
              = Cardinality({b \in Range(blocks) :
                                b.parentId = NoId /\ b.isVisible /\ b.type # "group"})

(* an export of a document with an invisible top-level block, a visible    *)
(* top-level group whose children are all invisible, and one visible       *)
(* top-level block: one section                                            *)
NoTraceWitness ==
    /\ lastOp = "generateMJML"
    /\ CountTags(mjml, "<mj-section>", Len(mjml)) = 1
    /\ \E b \in Range(blocks) : b.parentId = NoId /\ ~b.isVisible /\ b.type # "group"
    /\ \E g \in Range(blocks) :
          /\ g.type = "group" /\ g.isVisible /\ g.parentId = NoId
          /\ \E c \in Range(blocks) : c.parentId = g.id
          /\ \A c \in Range(blocks) : c.parentId = g.id => ~c.isVisible

-----------------------------------------------------------------------------
(* Export compiler: design tokens *)

TokenIds(vs) == {vs[i].id : i \in 1..Len(vs)}

(* the color values a block carries: its style colors, a table's border    *)
(* color and a social block's custom color                                 *)
ColorsOf(b) ==
    {b.styles[key] : key \in DOMAIN b.styles \cap ColorKeys}
    \cup (IF "tableData" \in DOMAIN b THEN {b.tableData.borderColor} ELSE {})
    \cup (IF "socialData" \in DOMAIN b /\ "customColor" \in DOMAIN b.socialData
          THEN {b.socialData.customColor} ELSE {})

CarriedColors == UNION {ColorsOf(b) : b \in Range(blocks)} \cup {canvasBackground}

(* the color attributes of the exported document *)
ExportedColors ==
    UNION {IF "colors" \in DOMAIN mjml[i]
           THEN {mjml[i].colors[a] : a \in DOMAIN mjml[i].colors}
           ELSE IF "background" \in DOMAIN mjml[i] THEN {mjml[i].background}
           ELSE {} : i \in 1..Len(mjml)}

(* C25: when every token referenced by a color that a block or the canvas  *)
(* carries exists, the exported document holds no color that is still a    *)
(* token reference.                                                        *)
ExportHasNoUnresolvedReference ==
    (/\ lastOp = "generateMJML"
     /\ \A c \in CarriedColors : c.sentinel => c.text \in TokenIds(variables))
    => \A c \in ExportedColors : ~c.sentinel

-----------------------------------------------------------------------------
(* Variable engine: resolution *)

TokenById(vs, id) == SelectSeq(vs, LAMBDA v : v.id = id)[1]

(* the style values resolution is applied to: those the document carries,  *)
(* a reference to a token that never existed and a literal                 *)
ResolvedInputs == CarriedColors \cup {VarRef("var-missing"), Literal("#1e293b")}

(* C26: resolving a reference returns the current value of its token       *)
(* whenever the token exists, whatever the value, and the reference itself *)
(* when it does not; a literal is returned as it is; neither the export    *)
(* (which resolves) nor deleteVariable changes a block.                    *)
ResolutionIsLookupWithFallback ==
    [][/\ \A c \in ResolvedInputs' :
            resolveColor(c, variables') =
                IF c.sentinel /\ c.text \in TokenIds(variables')
                THEN Literal(TokenById(variables', c.text).value)
                ELSE c
       /\ lastOp' \in {"generateMJML", "deleteVariable"} => blocks' = blocks]_vars

-----------------------------------------------------------------------------
(* Hierarchy: on-screen positions *)

(* the canvas places a child relatively to its group, and the group        *)
(* relatively to its own group: x, y of the block plus those of every      *)
(* ancestor group (at most depth of them)                                  *)
RECURSIVE OnScreen(_, _, _)
OnScreen(bs, b, depth) ==
    IF depth = 0 \/ b.parentId \notin BlockIds(bs) THEN <<b.x, b.y>>
    ELSE LET up == OnScreen(bs, BlockById(bs, b.parentId), depth - 1)
         IN <<b.x + up[1], b.y + up[2]>>

(* C27: ungroupSelectedBlock leaves the on-screen position of every child  *)
(* of the group it dissolves as it was, also when that group is the child  *)
(* of another group.                                                       *)
UngroupKeepsOnScreenPosition ==
    [][(lastOp' = "ungroupSelectedBlock" /\ blocks' # blocks) =>
          \A c \in Range(blocks) :
              c.parentId = selectedBlockIds[1] =>
                  OnScreen(blocks', BlockById(blocks', c.id), Len(blocks'))
                      = OnScreen(blocks, c, Len(blocks))]_vars

-----------------------------------------------------------------------------
(* Interaction state *)

(* C28: every selected id, and the id of the block being edited when there *)
(* is one, names a block of the document.                                  *)
SelectionAndEditingNameBlocks ==
    /\ \A i \in 1..Len(selectedBlockIds) : selectedBlockIds[i] \in BlockIds(blocks)
    /\ editingBlockId # NoId => editingBlockId \in BlockIds(blocks)

(* C29: the interaction mode is 'editing' exactly when a block is being    *)
(* edited.                                                                 *)
EditingModeIffEditingBlock ==
    interactionMode = "editing" <=> editingBlockId # NoId

-----------------------------------------------------------------------------
(* Export compiler: termination *)

(* the block reached from id by k steps of the parent relation (NoId or an *)
(* id that names no block once the chain has left the document)            *)
RECURSIVE Climb(_, _, _)
Climb(bs, id, k) ==
    IF k = 0 \/ id \notin BlockIds(bs) THEN id
    ELSE Climb(bs, BlockById(bs, id).parentId, k - 1)

(* C30: the parent relation has no cycle (every chain of parents leaves    *)
(* the document within as many steps as there are blocks), and             *)
(* generateMJML returns a complete document for the block collection that  *)
(* a call which changes the blocks has left.                               *)
ParentRelationIsAcyclic ==
    /\ \A b \in Range(blocks) : Climb(blocks, b.id, Len(blocks)) \notin BlockIds(blocks)
    /\ lastOp \notin {"selectBlock", "copySelectedBlocks"} =>
          LET document == generateMJML(blocks, ExportSettings, variables)
          IN document[Len(document)] = Tag("</mjml>", NoId)

(* a group was just made around a group that has children: the recursion   *)
(* of the export is two levels deep                                        *)
NestedRecursionWitness ==
    /\ lastOp = "groupSelectedBlocks"
    /\ \E b \in Range(blocks) : Climb(blocks, b.id, 2) \in BlockIds(blocks)

=============================================================================
